---- MODULE Spec2Model ----
(***************************************************************************)
(* django-libsql: the sqlite3-compatible shim around the libsql client.    *)
(*                                                                         *)
(* Four specifications over one set of variables:                          *)
(*   Spec        the connection/cursor transaction state machine           *)
(*               (LibSQLConnection, LibSQLCursor, DatabaseWrapper);        *)
(*   SpecCheck   the foreign-key constraint methods of DatabaseWrapper on  *)
(*               a connection outside a transaction;                       *)
(*   SpecParams  the derivation of the client's connect parameters from a  *)
(*               settings dictionary (get_connection_params, __init__);    *)
(*   SpecQuery   the placeholder translation of SQLiteCursorWrapper.       *)
(*                                                                         *)
(* The libsql client and the SQL engine behind it are the environment.     *)
(* They are modelled with SQLite's documented behaviour: in_transaction    *)
(* is true exactly between a successful BEGIN and the COMMIT/ROLLBACK that *)
(* ends it, PRAGMA foreign_keys is ignored inside a transaction, and any   *)
(* client call may raise.                                                  *)
(***************************************************************************)
EXTENDS Naturals, Sequences, FiniteSets

VARIABLES
    \* ---- Spec: connection state
    connection,         \* DatabaseWrapper.connection: "closed" or "open"
    _isolation_level,   \* LibSQLConnection._isolation_level
    _in_transaction,    \* LibSQLConnection._in_transaction (the wrapper's flag)
    in_transaction,     \* the client's _connection.in_transaction
    foreign_keys,       \* the engine's PRAGMA foreign_keys
    sent,               \* calls the last operation made on the client, in order
    last,               \* the last operation: its inputs, the state before it, its outcome
    prev,               \* the operation before it: name, outcome, foreign_keys before it
    row,                \* what the client's fetchone gave the last fetchone: {} or {row}
    description,        \* the cursor's description at the last fetchone: {} or {names}
    fetched,            \* what the last fetchone returned: {} or {row}
    table_names,        \* the argument of the last check_constraints: {} or {names}
    reports,            \* the violations the engine had to report to it, per table
    violation,          \* the violation its IntegrityError describes
    \* ---- SpecParams: connection parameter derivation
    settings_dict,      \* DatabaseWrapper.settings_dict
    kwargs,             \* result of get_connection_params
    conn_params,        \* what LibSQLConnection.__init__ hands to libsql.connect
    ppc,                \* "settings", "params", "connected", "error" (ImproperlyConfigured),
                        \* "ValueError"
    \* ---- SpecQuery: placeholder translation
    query,              \* the query given to SQLiteCursorWrapper.execute
    params,             \* "None", "positional" or "named"
    passed,             \* the query handed on to the wrapped cursor
    qpc                 \* "call" or "done"

cursorVars == <<row, description, fetched, table_names, reports, violation>>
connVars == <<connection, _isolation_level, _in_transaction, in_transaction,
              foreign_keys, sent, last, prev, cursorVars>>
paramVars == <<settings_dict, kwargs, conn_params, ppc>>
queryVars == <<query, params, passed, qpc>>
vars == <<connVars, paramVars, queryVars>>

(***************************************************************************)
(* Python values.  A dictionary entry or optional argument is a set: {}    *)
(* when the key is absent, {v} when it is present with value v.  So is a   *)
(* tuple that may be None: {} for None, {t} for the tuple t.               *)
(***************************************************************************)
PyNone == "<None>"

Absent == {}

Has(opt) == opt # {}

Get(opt, default) == IF opt = {} THEN default ELSE CHOOSE v \in opt : TRUE

(***************************************************************************)
(* Text that may be a URL: scheme://netloc/path?authToken=query.  A plain  *)
(* file name has an empty scheme and netloc.  query is the optional        *)
(* authToken parameter of the query string.                                *)
(***************************************************************************)
Text(scheme, netloc, path, q) ==
    [scheme |-> scheme, netloc |-> netloc, path |-> path, query |-> q]

EmptyText == Text("", "", "", {})

Truthy(text) == text # EmptyText

RemoteSchemes == {"libsql", "http", "https", "ws", "wss"}

\* db_name.startswith(("libsql://", "http://", "https://", "ws://", "wss://"))
StartsWithRemote(text) == text.scheme \in RemoteSchemes

(***************************************************************************)
(* DatabaseWrapper.get_connection_params.  The keys that never reach the   *)
(* client (timeout, detect_types, check_same_thread, uri) are left out.    *)
(***************************************************************************)
DefaultLocalFile == Text("", "", "local.db", {})

MemoryDatabase == Text("", "", ":memory:", {})

\* if "auth_token" in options ... elif "authToken" in options ...
OptionsAuthToken(options) ==
    IF Has(options.auth_token) THEN options.auth_token ELSE options.authToken

\* raise ImproperlyConfigured when NAME is empty
NameMissing(settings) == ~Truthy(settings.NAME)

\* kwargs["database"]: the local file when NAME is remote and a sync_url is given
DerivedDatabase(db_name, options) ==
    IF Has(options.sync_url) /\ StartsWithRemote(db_name)
    THEN Get(options.local_file, DefaultLocalFile)
    ELSE db_name

\* the sync_url option is kept as it is
OptionSyncUrl(db_name, options) == options.sync_url

\* kwargs["sync_url"]: the option, or NAME itself when NAME is remote
DerivedSyncUrl(db_name, options) ==
    IF Has(options.sync_url) /\ StartsWithRemote(db_name)
    THEN {db_name}
    ELSE options.sync_url

get_connection_params(settings) ==
    LET db_name == settings.NAME
        options == settings.OPTIONS
    IN  [ database        |-> {DerivedDatabase(db_name, options)},
          auth_token      |-> IF StartsWithRemote(db_name)
                              THEN OptionsAuthToken(options) ELSE Absent,
          sync_url        |-> DerivedSyncUrl(db_name, options),
          encryption_key  |-> options.encryption_key,
          isolation_level |-> IF Has(options.isolation_level)
                              THEN options.isolation_level
                              ELSE {"DEFERRED"},
          local_file      |-> Absent,
          turso_url       |-> settings.turso_url,
          turso_auth_token |-> settings.turso_auth_token ]

(***************************************************************************)
(* LibSQLConnection.__init__: from the keyword arguments to the arguments  *)
(* of libsql.connect.                                                      *)
(***************************************************************************)
\* urlparse + the f-string: libsql://netloc/path?query -> https://netloc/path
RewriteLibsql(database) ==
    IF database.scheme = "libsql" /\ database.netloc # ""
    THEN Text("https", database.netloc, database.path, {})
    ELSE database

\* the token of the keyword arguments alone
KeywordAuthToken(kw) == Get(kw.auth_token, "")

\* parse_qs(parsed.query)['authToken'][0] replaces the keyword's token
InitAuthToken(kw) ==
    LET database == Get(kw.database, MemoryDatabase)
    IN  IF database.scheme = "libsql" /\ Has(database.query)
        THEN Get(database.query, "")
        ELSE Get(kw.auth_token, "")

\* a default of None instead of ''
InitIsolationLevelNone(kw) == Get(kw.isolation_level, PyNone)

\* kwargs.get('isolation_level', '')
InitIsolationLevel(kw) == Get(kw.isolation_level, "")

\* the injected URL without the injected token
TursoOverrideUrlOnly(kw, cp) ==
    IF Has(kw.turso_url)
    THEN [cp EXCEPT !.database = Get(kw.local_file, DefaultLocalFile),
                    !.sync_url = kw.turso_url]
    ELSE cp

\* the injected credentials force the replica parameters
TursoOverride(kw, cp) ==
    IF Has(kw.turso_url)
    THEN [cp EXCEPT !.database = Get(kw.local_file, DefaultLocalFile),
                    !.sync_url = kw.turso_url,
                    !.auth_token = IF Has(kw.turso_auth_token)
                                   THEN kw.turso_auth_token ELSE @]
    ELSE cp

\* host parts in which "[" and "]" do not pair up
UnbalancedNetlocs == {"[db.turso.io"}

\* urlparse(self.database), which __init__ calls for a libsql:// database
\* outside its try block, raises ValueError for such a host part
urlparse_raises(database) ==
    database.scheme = "libsql" /\ database.netloc \in UnbalancedNetlocs

ConnParams(kw) ==
    LET database   == RewriteLibsql(Get(kw.database, MemoryDatabase))
        auth_token == InitAuthToken(kw)
        sync_url   == Get(kw.sync_url, EmptyText)
        key        == Get(kw.encryption_key, "")
        isRemote   == database.scheme \in {"http", "https", "ws", "wss"}
        isLocal    == database = MemoryDatabase \/ database.scheme = "file"
        derived ==
          [ database       |-> database,
            auth_token     |-> IF auth_token # ""
                                  /\ ((~isLocal /\ isRemote) \/ Truthy(sync_url))
                               THEN {auth_token} ELSE Absent,
            sync_url       |-> IF Truthy(sync_url) THEN {sync_url} ELSE Absent,
            encryption_key |-> IF key # "" THEN {key} ELSE Absent ]
    IN  TursoOverride(kw, derived)

(***************************************************************************)
(* SpecParams: every settings dictionary of a small universe is taken      *)
(* through get_connection_params and LibSQLConnection.__init__.            *)
(***************************************************************************)
Names ==
    { EmptyText,
      MemoryDatabase,
      Text("", "", "db.sqlite3", {}),
      Text("file", "", "db.sqlite3", {}),
      Text("libsql", "db.turso.io", "", {}),
      Text("libsql", "db.turso.io", "", {"tokU"}),
      Text("libsql", "", "/db", {}),
      Text("libsql", "[db.turso.io", "", {}),
      Text("https", "db.turso.io", "", {}),
      Text("ws", "localhost:8080", "", {}) }

OptionSets ==
    [ auth_token      : {Absent, {""}, {"tokA"}},
      authToken       : {Absent, {"tokB"}},
      sync_url        : {Absent, {EmptyText}, {Text("https", "sync.turso.io", "", {})}},
      local_file      : {Absent, {Text("", "", "replica.db", {})}},
      encryption_key  : {Absent, {"key"}},
      isolation_level : {Absent, {PyNone}, {""}} ]

Settings ==
    [ NAME             : Names,
      OPTIONS          : OptionSets,
      turso_url        : {Absent, {Text("libsql", "inj.turso.io", "", {})}},
      turso_auth_token : {Absent, {"tokT"}} ]

NoSettings ==
    [ NAME |-> EmptyText,
      OPTIONS |-> [ auth_token |-> Absent, authToken |-> Absent, sync_url |-> Absent,
                    local_file |-> Absent, encryption_key |-> Absent,
                    isolation_level |-> Absent ],
      turso_url |-> Absent, turso_auth_token |-> Absent ]

NoKwargs ==
    [ database |-> Absent, auth_token |-> Absent, sync_url |-> Absent,
      encryption_key |-> Absent, isolation_level |-> Absent, local_file |-> Absent,
      turso_url |-> Absent, turso_auth_token |-> Absent ]

NoConnParams ==
    [ database |-> EmptyText, auth_token |-> Absent, sync_url |-> Absent,
      encryption_key |-> Absent ]

\* DatabaseWrapper.get_connection_params() on self.settings_dict
GetConnectionParams ==
    /\ ppc = "settings"
    /\ IF NameMissing(settings_dict)
       THEN /\ ppc' = "error"
            /\ UNCHANGED kwargs
       ELSE /\ ppc' = "params"
            /\ kwargs' = get_connection_params(settings_dict)
    /\ UNCHANGED <<settings_dict, conn_params, connVars, queryVars>>

\* Database.connect(**kwargs): LibSQLConnection.__init__ up to libsql.connect
DatabaseConnect ==
    /\ ppc = "params"
    /\ IF urlparse_raises(Get(kwargs.database, MemoryDatabase))
       THEN /\ ppc' = "ValueError"
            /\ UNCHANGED conn_params
       ELSE /\ conn_params' = ConnParams(kwargs)
            /\ \E raises \in BOOLEAN : ppc' = IF raises THEN "error" ELSE "connected"
    /\ UNCHANGED <<settings_dict, kwargs, connVars, queryVars>>

(***************************************************************************)
(* SQL statements are sequences of tokens: a word in some letter case, or  *)
(* " " for whitespace.  str.strip and str.upper act on the tokens.         *)
(***************************************************************************)
MaxParamSets == 2

UpperWord(word) ==
    CASE word = "insert" -> "INSERT"
      [] word = "select" -> "SELECT"
      [] word = "begin"  -> "BEGIN"
      [] OTHER           -> word

upper(sql) == [i \in 1..Len(sql) |-> UpperWord(sql[i])]

RECURSIVE lstrip(_)
lstrip(sql) ==
    IF sql # <<>> /\ Head(sql) = " " THEN lstrip(Tail(sql)) ELSE sql

RECURSIVE rstrip(_)
rstrip(sql) ==
    IF sql # <<>> /\ sql[Len(sql)] = " "
    THEN rstrip(SubSeq(sql, 1, Len(sql) - 1)) ELSE sql

strip(sql) == rstrip(lstrip(sql))

\* sql_upper.startswith(cmd)
startswith(sql, cmd) == sql # <<>> /\ Head(sql) = cmd

DmlCommands == {"INSERT", "UPDATE", "DELETE", "REPLACE"}

\* the test without str.strip
_is_dml_unstripped(sql) ==
    \E cmd \in DmlCommands : startswith(upper(sql), cmd)

_is_dml(sql) ==
    LET sql_upper == upper(strip(sql))
    IN  \E cmd \in DmlCommands : startswith(sql_upper, cmd)

PragmaOn == <<"PRAGMA foreign_keys = ON">>

PragmaOff == <<"PRAGMA foreign_keys = OFF">>

PragmaQuery == <<"PRAGMA foreign_keys">>

Begin == <<"BEGIN">>

\* the statements a caller passes to execute
Statements ==
    { <<"INSERT">>, <<" ", "insert", " ">>, <<"UPDATE">>, <<"DELETE">>, <<"REPLACE">>,
      <<"SELECT">>, <<"BEGIN">>, <<"COMMIT">>, <<"ROLLBACK">> }

\* the scripts a caller passes to executescript (";" separates statements)
Scripts ==
    { <<"INSERT">>, <<"BEGIN", ";", "INSERT">>, <<"BEGIN", ";", "INSERT", ";", "COMMIT">>,
      <<"COMMIT">> }

(***************************************************************************)
(* The engine behind the client.  One statement: BEGIN opens a transaction *)
(* and fails inside one; COMMIT and ROLLBACK close it and fail outside     *)
(* one; PRAGMA foreign_keys = x is a no-op inside a transaction.           *)
(***************************************************************************)
EngineStatement(e, word) ==
    LET w == UpperWord(word)
    IN  IF e.err THEN e
        ELSE CASE w = "BEGIN" ->
                    IF e.tx THEN [e EXCEPT !.err = TRUE] ELSE [e EXCEPT !.tx = TRUE]
               [] w \in {"COMMIT", "ROLLBACK"} ->
                    IF e.tx THEN [e EXCEPT !.tx = FALSE] ELSE [e EXCEPT !.err = TRUE]
               [] w = PragmaOn[1]  -> IF e.tx THEN e ELSE [e EXCEPT !.fk = TRUE]
               [] w = PragmaOff[1] -> IF e.tx THEN e ELSE [e EXCEPT !.fk = FALSE]
               [] OTHER -> e

RECURSIVE EngineRun(_, _)
EngineRun(e, sql) ==
    IF sql = <<>> THEN e ELSE EngineRun(EngineStatement(e, Head(sql)), Tail(sql))

\* connection.commit() / connection.rollback() of the client: end the
\* transaction if there is one
EngineEnd(e) == [e EXCEPT !.tx = FALSE]

(***************************************************************************)
(* One call on the client.  w is the state an operation threads through    *)
(* its steps: the wrapper's fields, the client's, the calls made so far,   *)
(* whether an exception is propagating (ok = FALSE) and of which kind      *)
(* (exc), and which call the environment makes fail (failAt, 0 for none).  *)
(***************************************************************************)
\* the exception of the client, libsql.Error
ClientError == "libsql.Error"

ClientCall(w, call, sql) ==
    IF ~w.ok THEN w
    ELSE LET e0 == [tx |-> w.tx, fk |-> w.fk, err |-> Len(w.sent) + 1 = w.failAt]
             e  == CASE call \in {"execute", "executescript"} -> EngineRun(e0, strip(sql))
                     [] call \in {"commit", "rollback"} -> IF e0.err THEN e0 ELSE EngineEnd(e0)
                     [] OTHER -> e0
             entry == [call |-> call, sql |-> sql, tx |-> w.tx, ok |-> ~e.err]
         IN  [w EXCEPT !.sent = Append(@, entry),
                       !.ok = ~e.err,
                       !.exc = IF e.err THEN ClientError ELSE "",
                       !.tx = e.tx,
                       !.fk = e.fk]

(***************************************************************************)
(* LibSQLConnection and LibSQLCursor, as functions of the threaded state.  *)
(***************************************************************************)
\* commit without the test for autocommit mode
LibSQLConnection_commit_always(w) ==
    IF ~w.ok THEN w
    ELSE LET c == ClientCall(w, "commit", <<>>)
         IN  IF c.ok THEN [c EXCEPT !.flag = c.tx] ELSE c

\* LibSQLConnection.commit
LibSQLConnection_commit(w) ==
    IF ~w.ok \/ w.iso = PyNone THEN w
    ELSE LET c == ClientCall(w, "commit", <<>>)
         IN  IF c.ok THEN [c EXCEPT !.flag = c.tx] ELSE c

\* LibSQLConnection.rollback
LibSQLConnection_rollback(w) ==
    IF ~w.ok \/ w.iso = PyNone THEN w
    ELSE LET c == ClientCall(w, "rollback", <<>>)
         IN  IF c.ok THEN [c EXCEPT !.flag = c.tx] ELSE c

\* the isolation_level setter: try commit(), except: rollback()
isolation_level_setter(w, value) ==
    LET w1 == [w EXCEPT !.iso = value]
    IN  IF value = PyNone /\ w1.tx
        THEN LET c == LibSQLConnection_commit(w1)
             IN  IF c.ok THEN c
                 ELSE LibSQLConnection_rollback([c EXCEPT !.ok = TRUE, !.exc = ""])
        ELSE w1

\* an implicit transaction start that does not ask the client whether a
\* transaction is active
ImplicitBegin_unasked(w, sql) ==
    IF w.iso # PyNone /\ _is_dml(sql)
    THEN LET b == ClientCall(w, "execute", Begin)
         IN  IF b.ok THEN [b EXCEPT !.flag = b.tx] ELSE b
    ELSE w

\* the implicit transaction start of LibSQLCursor.execute
ImplicitBegin(w, sql) ==
    IF w.iso # PyNone /\ ~w.tx /\ _is_dml(sql)
    THEN LET b == ClientCall(w, "execute", Begin)
         IN  IF b.ok THEN [b EXCEPT !.flag = b.tx] ELSE b
    ELSE w

\* LibSQLCursor._adapt_params: a registered adapter that raises is not caught
_adapt_params(w, p) ==
    IF w.ok /\ p = "unadaptable"
    THEN [w EXCEPT !.ok = FALSE, !.exc = "adapter's exception"]
    ELSE w

\* LibSQLCursor.execute; p is "none", "adaptable" or "unadaptable"
LibSQLCursor_execute(w, sql, p) ==
    IF ~w.ok THEN w
    ELSE ClientCall(_adapt_params(ImplicitBegin(w, sql), p), "execute", sql)

\* LibSQLCursor.executemany over n parameter sets
RECURSIVE LibSQLCursor_executemany(_, _, _)
LibSQLCursor_executemany(w, sql, n) ==
    IF n = 0 THEN w
    ELSE LibSQLCursor_executemany(LibSQLCursor_execute(w, sql, "adaptable"), sql, n - 1)

\* SQLiteCursorWrapper.execute(query) with params None, as the methods of
\* DatabaseWrapper call it: create_cursor wraps the client's own cursor, so
\* the query goes to the client unconverted and without an implicit BEGIN
CursorExecute(w, sql) == ClientCall(w, "execute", sql)

\* disable_constraint_checking that only reads the pragma
disable_constraint_checking_readonly(w) ==
    LET w2 == CursorExecute(w, PragmaQuery)
    IN  IF w2.ok THEN [w2 EXCEPT !.ret = IF w2.fk THEN "False" ELSE "True"] ELSE w2

\* DatabaseWrapper.disable_constraint_checking; ret is its return value
disable_constraint_checking(w) ==
    LET w1 == CursorExecute(w, PragmaOff)
        w2 == CursorExecute(w1, PragmaQuery)
    IN  IF w2.ok THEN [w2 EXCEPT !.ret = IF w2.fk THEN "False" ELSE "True"] ELSE w2

\* DatabaseWrapper.enable_constraint_checking
enable_constraint_checking(w) == CursorExecute(w, PragmaOn)

\* a start of a transaction that refreshes the wrapper's flag
_start_transaction_under_autocommit_tracked(w) ==
    IF ~w.tx
    THEN LET b == CursorExecute(w, Begin)
         IN  IF b.ok THEN [b EXCEPT !.flag = b.tx] ELSE b
    ELSE w

\* DatabaseWrapper._start_transaction_under_autocommit
_start_transaction_under_autocommit(w) ==
    IF ~w.tx THEN CursorExecute(w, Begin) ELSE w

\* DatabaseWrapper._set_autocommit
_set_autocommit(w, autocommit) ==
    isolation_level_setter(w, IF autocommit THEN PyNone ELSE "")

\* LibSQLConnection.__exit__
ContextManagerExit(w, exc_type) ==
    IF exc_type THEN LibSQLConnection_rollback(w) ELSE LibSQLConnection_commit(w)

\* Database.connect(**kw): a new LibSQLConnection around a new client
\* connection, whose engine starts outside a transaction with foreign keys off
\* the state an opening starts from, with the isolation level iso
Opening(failAt, iso) ==
    [iso |-> iso, flag |-> FALSE, tx |-> FALSE, fk |-> FALSE, sent |-> <<>>,
     ok |-> TRUE, exc |-> "", failAt |-> failAt, ret |-> ""]

\* raise exc
Raise(w, exc) == [w EXCEPT !.ok = FALSE, !.exc = exc]

\* urlparse may raise before the client is reached; what libsql.connect
\* raises is wrapped into ImproperlyConfigured
connect(failAt, kw) ==
    LET w == Opening(failAt, InitIsolationLevel(kw))
        c == ClientCall(w, "connect", <<>>)
    IN  IF urlparse_raises(Get(kw.database, MemoryDatabase))
        THEN Raise(w, "ValueError")
        ELSE IF c.ok THEN c ELSE [c EXCEPT !.exc = "ImproperlyConfigured"]

\* get_new_connection that lets a failure of sync reach the caller
get_new_connection_sync_raises(failAt, kw) ==
    LET w1 == connect(failAt, kw)
        w2 == LibSQLCursor_execute(w1, PragmaOn, "none")
    IN  IF w2.ok /\ Truthy(Get(kw.sync_url, EmptyText))
        THEN ClientCall(w2, "sync", <<>>)
        ELSE w2

\* DatabaseWrapper.get_new_connection(conn_params)
get_new_connection(failAt, kw) ==
    LET w1 == connect(failAt, kw)
        w2 == LibSQLCursor_execute(w1, PragmaOn, "none")
        w3 == IF w2.ok /\ Truthy(Get(kw.sync_url, EmptyText))
              THEN [ClientCall(w2, "sync", <<>>) EXCEPT !.ok = TRUE, !.exc = ""]
              ELSE w2
    IN  w3

(***************************************************************************)
(* Spec: the operations on one connection.                                 *)
(***************************************************************************)
\* the settings the connection of Spec is opened with: a remote NAME, no
\* NAME or one that urlparse rejects, and every isolation_level and sync_url
\* option
ConnSettings ==
    { st \in Settings :
        /\ st.NAME \in { Text("libsql", "db.turso.io", "", {}), EmptyText,
                        Text("libsql", "[db.turso.io", "", {}) }
        /\ st.OPTIONS.auth_token = {"tokA"}
        /\ st.OPTIONS.authToken = Absent
        /\ st.OPTIONS.local_file = Absent
        /\ st.OPTIONS.encryption_key = Absent
        /\ st.turso_url = Absent
        /\ st.turso_auth_token = Absent }

\* keyword arguments of a direct Database.connect(**kwargs)
DirectKwargs ==
    { [NoKwargs EXCEPT !.database = {database}, !.isolation_level = iso] :
        database \in {MemoryDatabase, Text("libsql", "[db.turso.io", "", {})},
        iso \in {Absent, {PyNone}, {""}} }

\* which client call of an operation the environment makes fail (0: none),
\* for an operation that makes at most n calls
FailPoints(n) == 0..n

\* the arguments of execute: every statement without parameters, and two
\* of them with parameters the adapters accept or choke on
ExecuteArgs ==
    (Statements \X {"none"})
        \cup ({<<"INSERT">>, <<"SELECT">>} \X {"adaptable", "unadaptable"})

ExecuteManyStatements == {<<"INSERT">>, <<"SELECT">>}

\* the state an operation starts from
World(failAt) ==
    [iso |-> _isolation_level, flag |-> _in_transaction, tx |-> in_transaction,
     fk |-> foreign_keys, sent |-> <<>>, ok |-> TRUE, exc |-> "", failAt |-> failAt,
     ret |-> ""]

NoCall == [op |-> "none", sql |-> <<>>, arg |-> "", sync_url |-> FALSE, iso0 |-> "",
           tx0 |-> FALSE, flag0 |-> FALSE, fk0 |-> FALSE, ok |-> TRUE, exc |-> "",
           ret |-> ""]

NoPrev == [op |-> "other", fk0 |-> FALSE]

\* sync_url: whether the operation was given a sync_url (get_new_connection)
Record(op, sql, arg, sync_url, w) ==
    /\ last' = [op |-> op, sql |-> sql, arg |-> arg, sync_url |-> sync_url,
                iso0 |-> _isolation_level, tx0 |-> in_transaction,
                flag0 |-> _in_transaction, fk0 |-> foreign_keys,
                ok |-> w.ok, exc |-> w.exc, ret |-> w.ret]
    /\ prev' = IF last.op = "enable_constraint_checking" /\ last.ok
               THEN [op |-> last.op, fk0 |-> last.fk0]
               ELSE NoPrev
    /\ sent' = w.sent

\* no fetchone and no check_constraints is the last operation
NoRow == Absent

NoReports == <<>>

NoViolation == [table |-> "", rowid |-> 0]

NoFetch ==
    /\ row' = NoRow
    /\ description' = Absent
    /\ fetched' = NoRow

NoCheck ==
    /\ table_names' = Absent
    /\ reports' = NoReports
    /\ violation' = NoViolation

\* an operation on the open connection leaves the state w behind
Step(op, sql, arg, w) ==
    /\ connection = "open"
    /\ _isolation_level' = w.iso
    /\ _in_transaction' = w.flag
    /\ in_transaction' = w.tx
    /\ foreign_keys' = w.fk
    /\ Record(op, sql, arg, FALSE, w)
    /\ UNCHANGED <<connection, paramVars, queryVars>>

Operation(op, sql, arg, w) == Step(op, sql, arg, w) /\ NoFetch /\ NoCheck

\* a connection that is opened: when get_new_connection raises, none exists
Opened(op, arg, sync_url, w) ==
    /\ connection' = IF w.ok THEN "open" ELSE "closed"
    /\ _isolation_level' = IF w.ok THEN w.iso ELSE ""
    /\ _in_transaction' = (w.ok /\ w.flag)
    /\ in_transaction' = (w.ok /\ w.tx)
    /\ foreign_keys' = (w.ok /\ w.fk)
    /\ Record(op, <<>>, arg, sync_url, w)
    /\ NoFetch
    /\ NoCheck
    /\ UNCHANGED <<paramVars, queryVars>>

IsoArg(opt) == IF opt = Absent THEN "<absent>" ELSE Get(opt, "")

\* DatabaseWrapper.get_new_connection(self.get_connection_params()), where
\* get_connection_params raises ImproperlyConfigured when NAME is empty
GetNewConnection ==
    \E st \in ConnSettings, failAt \in FailPoints(3) :
        /\ connection = "closed"
        /\ Opened("get_new_connection", IsoArg(st.OPTIONS.isolation_level),
                  Has(st.OPTIONS.sync_url),
                  IF NameMissing(st)
                  THEN Raise(Opening(failAt, ""), "ImproperlyConfigured")
                  ELSE get_new_connection(failAt, get_connection_params(st)))

\* Database.connect(**kwargs) called directly
Connect ==
    \E kw \in DirectKwargs, failAt \in FailPoints(1) :
        /\ connection = "closed"
        /\ Opened("connect", IsoArg(kw.isolation_level), FALSE, connect(failAt, kw))

Execute ==
    \E a \in ExecuteArgs, failAt \in FailPoints(2) :
        Operation("execute", a[1], a[2], LibSQLCursor_execute(World(failAt), a[1], a[2]))

ExecuteMany ==
    \E sql \in ExecuteManyStatements, n \in 0..MaxParamSets,
       failAt \in FailPoints(MaxParamSets + 1) :
        Operation("executemany", sql, "adaptable",
                  LibSQLCursor_executemany(World(failAt), sql, n))

ExecuteScript ==
    \E script \in Scripts, failAt \in FailPoints(1) :
        Operation("executescript", script, "",
                  ClientCall(World(failAt), "executescript", script))

Commit ==
    \E failAt \in FailPoints(1) :
        Operation("commit", <<>>, "", LibSQLConnection_commit(World(failAt)))

Rollback ==
    \E failAt \in FailPoints(1) :
        Operation("rollback", <<>>, "", LibSQLConnection_rollback(World(failAt)))

ContextExit ==
    \E exc_type \in BOOLEAN, failAt \in FailPoints(1) :
        Operation("__exit__", <<>>, IF exc_type THEN "exception" ELSE "",
                  ContextManagerExit(World(failAt), exc_type))

SetAutocommit ==
    \E autocommit \in BOOLEAN, failAt \in FailPoints(2) :
        Operation("_set_autocommit", <<>>, IF autocommit THEN "True" ELSE "False",
                  _set_autocommit(World(failAt), autocommit))

StartTransactionUnderAutocommit ==
    \E failAt \in FailPoints(1) :
        Operation("_start_transaction_under_autocommit", <<>>, "",
                  _start_transaction_under_autocommit(World(failAt)))

EnableConstraintChecking ==
    \E failAt \in FailPoints(1) :
        Operation("enable_constraint_checking", <<>>, "",
                  enable_constraint_checking(World(failAt)))

DisableConstraintChecking ==
    \E failAt \in FailPoints(2) :
        Operation("disable_constraint_checking", <<>>, "",
                  disable_constraint_checking(World(failAt)))

\* DatabaseWrapper.close() of a database that is not in memory: errors of
\* connection.close() are swallowed and the connection is dropped
Close ==
    /\ connection = "open"
    /\ \E failAt \in FailPoints(1) :
         Record("close", <<>>, "", FALSE,
                [ClientCall(World(failAt), "close", <<>>) EXCEPT !.ok = TRUE, !.exc = ""])
    /\ connection' = "closed"
    /\ _isolation_level' = ""
    /\ _in_transaction' = FALSE
    /\ in_transaction' = FALSE
    /\ foreign_keys' = FALSE
    /\ NoFetch
    /\ NoCheck
    /\ UNCHANGED <<paramVars, queryVars>>

(***************************************************************************)
(* LibSQLCursor.fetchone.  A row is a tuple of values, None for NULL.  The *)
(* description names, for each column, what the first registered converter *)
(* whose type name occurs in the column's name does: there is "none", it   *)
(* "converts", or it "raises".                                             *)
(***************************************************************************)
MaxColumns == 2

Values == {PyNone, "value"}

Converters == {"none", "converts", "raises"}

\* the tuples of at most n elements of S
RECURSIVE TuplesUpTo(_, _)
TuplesUpTo(S, n) ==
    IF n = 0 THEN {<<>>}
    ELSE LET shorter == TuplesUpTo(S, n - 1)
         IN  shorter \cup {Append(t, x) : t \in {r \in shorter : Len(r) = n - 1}, x \in S}

\* the rows the client's fetchone returns
Rows == TuplesUpTo(Values, MaxColumns)

\* the descriptions a cursor can have for a row: one entry per column
Descriptions(r) == {d \in TuplesUpTo(Converters, MaxColumns) : Len(d) = Len(r)}

\* what a converter that returns makes of a value
Converted(value) == "converted value"

\* _convert_row that applies no converter
_convert_row_unconverted(r, description_) == r

\* LibSQLCursor._convert_row of the row r: a converter that raises leaves
\* the value as it is
_convert_row(r, description_) ==
    LET d == Get(description_, <<>>)
    IN  IF d = <<>> THEN r
        ELSE [i \in 1..(IF Len(d) < Len(r) THEN Len(d) ELSE Len(r)) |->
                IF r[i] # PyNone /\ d[i] = "converts" THEN Converted(r[i]) ELSE r[i]]

\* LibSQLCursor.fetchone, once the client's fetchone has returned row_
LibSQLCursor_fetchone(row_, description_) ==
    IF row_ # Absent /\ row_ # {<<>>}
    THEN {_convert_row(Get(row_, <<>>), description_)}
    ELSE row_

\* the client's fetchone returns None after the last row and a row before;
\* the cursor's description is None or describes the row
FetchOne ==
    \E failAt \in FailPoints(1), columns \in Rows, exhausted \in BOOLEAN :
        \E names \in Descriptions(columns), described \in BOOLEAN :
            LET w == ClientCall(World(failAt), "fetchone", <<>>)
                r == IF exhausted THEN Absent ELSE {columns}
                d == IF described THEN {names} ELSE Absent
            IN  /\ Step("fetchone", <<>>, "", w)
                /\ row' = IF w.ok THEN r ELSE NoRow
                /\ description' = IF w.ok THEN d ELSE Absent
                /\ fetched' = IF w.ok THEN LibSQLCursor_fetchone(r, d) ELSE NoRow
                /\ NoCheck

(***************************************************************************)
(* DatabaseWrapper.check_constraints.  The engine has, for each table, a   *)
(* number of rows with an invalid reference; a violation report names the  *)
(* table and the row.  found says whether the SELECT by rowid reads the    *)
(* reported row back (a table without rowids reports no rowid).            *)
(***************************************************************************)
MaxViolations == 2

\* the tables of the database, in the order the engine checks them
Tables == <<"t1", "t2">>

TableSet == {Tables[i] : i \in 1..Len(Tables)}

\* the lists of table names a caller passes
NameLists == {<<>>, <<"t1">>, <<"t2">>, <<"t1", "t2">>, <<"t2", "t1">>}

Reports == [TableSet -> 0..MaxViolations]

ForeignKeyCheckAll == <<"PRAGMA foreign_key_check">>

ForeignKeyCheck(table) == <<"PRAGMA foreign_key_check", table>>

ForeignKeyList(table) == <<"PRAGMA foreign_key_list", table>>

SelectRow(table) == <<"SELECT", table>>

\* the rows that PRAGMA foreign_key_check(table) returns
ViolationsOf(rep, table) == [i \in 1..rep[table] |-> [table |-> table, rowid |-> i]]

\* the rows that PRAGMA foreign_key_check returns
RECURSIVE ViolationsOfAll(_, _)
ViolationsOfAll(rep, tables) ==
    IF tables = <<>> THEN <<>>
    ELSE ViolationsOf(rep, Head(tables)) \o ViolationsOfAll(rep, Tail(tables))

\* a loop body that raises nothing
DescribeViolation_and_go_on(w, v, found) == w

\* the body of the loop over the violations, which ends in a raise: the
\* foreign key list, the primary key column (introspection, any number of
\* queries, as one call), the row, IntegrityError; unpacking the row that
\* was not found raises TypeError
DescribeViolation(w, v, found) ==
    LET w1 == CursorExecute(w, ForeignKeyList(v.table))
        w2 == ClientCall(w1, "get_primary_key_column", <<v.table>>)
        w3 == CursorExecute(w2, SelectRow(v.table))
    IN  IF ~w3.ok THEN w3
        ELSE IF found THEN Raise(w3, "IntegrityError")
        ELSE Raise(w3, "TypeError")

\* chain.from_iterable over the named tables: a table is checked when the
\* loop gets to it
RECURSIVE CheckNamedTables(_, _, _, _)
CheckNamedTables(w, names, rep, found) ==
    IF ~w.ok \/ names = <<>> THEN w
    ELSE LET c == CursorExecute(w, ForeignKeyCheck(Head(names)))
         IN  IF c.ok /\ rep[Head(names)] > 0
             THEN DescribeViolation(c, ViolationsOf(rep, Head(names))[1], found)
             ELSE CheckNamedTables(c, Tail(names), rep, found)

\* DatabaseWrapper.check_constraints(table_names)
check_constraints(w, table_names_, rep, found) ==
    IF table_names_ = Absent
    THEN LET c == CursorExecute(w, ForeignKeyCheckAll)
             violations == ViolationsOfAll(rep, Tables)
         IN  IF c.ok /\ violations # <<>>
             THEN DescribeViolation(c, violations[1], found)
             ELSE c
    ELSE CheckNamedTables(w, Get(table_names_, <<>>), rep, found)

\* the violation the loop reaches first
RECURSIVE FirstViolation(_, _)
FirstViolation(names, rep) ==
    IF names = <<>> THEN NoViolation
    ELSE IF rep[Head(names)] > 0 THEN ViolationsOf(rep, Head(names))[1]
    ELSE FirstViolation(Tail(names), rep)

CheckConstraints ==
    \E given \in {Absent} \cup {{names} : names \in NameLists}, rep \in Reports,
       found \in BOOLEAN, failAt \in FailPoints(5) :
        LET w == check_constraints(World(failAt), given, rep, found)
        IN  /\ Step("check_constraints", <<>>, "", w)
            /\ table_names' = given
            /\ reports' = rep
            /\ violation' = IF w.exc = "IntegrityError"
                             THEN FirstViolation(Get(given, Tables), rep)
                             ELSE NoViolation
            /\ NoFetch

ConnIdle ==
    /\ connection = "closed"
    /\ _isolation_level = ""
    /\ _in_transaction = FALSE
    /\ in_transaction = FALSE
    /\ foreign_keys = FALSE
    /\ sent = <<>>
    /\ last = NoCall
    /\ prev = NoPrev
    /\ row = NoRow
    /\ description = Absent
    /\ fetched = NoRow
    /\ table_names = Absent
    /\ reports = NoReports
    /\ violation = NoViolation

ParamsIdle ==
    /\ settings_dict = NoSettings
    /\ kwargs = NoKwargs
    /\ conn_params = NoConnParams
    /\ ppc = "idle"

QueryIdle ==
    /\ query = <<>>
    /\ params = "None"
    /\ passed = <<>>
    /\ qpc = "idle"

Init == ConnIdle /\ ParamsIdle /\ QueryIdle

Next ==
    \/ GetNewConnection
    \/ Connect
    \/ Execute
    \/ ExecuteMany
    \/ ExecuteScript
    \/ Commit
    \/ Rollback
    \/ ContextExit
    \/ SetAutocommit
    \/ StartTransactionUnderAutocommit
    \/ EnableConstraintChecking
    \/ DisableConstraintChecking
    \/ FetchOne
    \/ Close

Spec == Init /\ [][Next]_vars

NextCheck ==
    \/ GetNewConnection
    \/ EnableConstraintChecking
    \/ DisableConstraintChecking
    \/ CheckConstraints

SpecCheck == Init /\ [][NextCheck]_vars

InitParams ==
    /\ ConnIdle
    /\ QueryIdle
    /\ settings_dict \in Settings
    /\ kwargs = NoKwargs
    /\ conn_params = NoConnParams
    /\ ppc = "settings"

NextParams == GetConnectionParams \/ DatabaseConnect

SpecParams == InitParams /\ [][NextParams]_vars

(***************************************************************************)
(* SQLiteCursorWrapper: placeholder translation.  A query is a sequence of *)
(* characters.                                                             *)
(***************************************************************************)
MaxLen == 5

Chars == {"%", "s", "(", ")", "n"}

RECURSIVE SeqsUpTo(_)
SeqsUpTo(n) ==
    IF n = 0 THEN {<<>>}
    ELSE LET shorter == SeqsUpTo(n - 1)
         IN  shorter \cup {Append(q, c) : q \in {r \in shorter : Len(r) = n - 1}, c \in Chars}

Queries == SeqsUpTo(MaxLen)

\* the names of a mapping of parameters: list(params)
ParamNames == {<<"n">>}

\* what the wrapper hands on when convert_query raises
Raised == <<"<raised>">>

\* the pattern without its lookbehind: any "%s"
QmarkMatchAnywhere(q, i) ==
    /\ i + 1 <= Len(q)
    /\ q[i] = "%"
    /\ q[i + 1] = "s"

\* FORMAT_QMARK_REGEX = (?<!%)%s : a "%s" at position i that no "%" precedes
QmarkMatch(q, i) ==
    /\ i + 1 <= Len(q)
    /\ q[i] = "%"
    /\ q[i + 1] = "s"
    /\ (i = 1 \/ q[i - 1] # "%")

\* FORMAT_QMARK_REGEX.sub("?", query), from position i on
RECURSIVE RegexSub(_, _)
RegexSub(q, i) ==
    IF i > Len(q) THEN <<>>
    ELSE IF QmarkMatch(q, i) THEN <<"?">> \o RegexSub(q, i + 2)
    ELSE <<q[i]>> \o RegexSub(q, i + 1)

\* str.replace("%%", "%"): left to right, occurrences that do not overlap
RECURSIVE ReplacePercents(_)
ReplacePercents(q) ==
    IF Len(q) < 2 THEN q
    ELSE IF q[1] = "%" /\ q[2] = "%"
    THEN <<"%">> \o ReplacePercents(SubSeq(q, 3, Len(q)))
    ELSE <<q[1]>> \o ReplacePercents(Tail(q))

\* the position of the ")" that closes the "(" before position i, 0 if none
RECURSIVE KeyEnd(_, _, _)
KeyEnd(q, i, depth) ==
    IF i > Len(q) THEN 0
    ELSE IF q[i] = ")" THEN (IF depth = 1 THEN i ELSE KeyEnd(q, i + 1, depth - 1))
    ELSE IF q[i] = "(" THEN KeyEnd(q, i + 1, depth + 1)
    ELSE KeyEnd(q, i + 1, depth)

\* query % mapping, from position i on; unused is whether the argument that
\* a conversion without a key would take is still there.  The mapping gives
\* ":" + name for each name; any error makes the whole result Raised.
RECURSIVE PercentFormat(_, _, _)
PercentFormat(q, i, unused) ==
    IF i > Len(q) THEN <<>>
    ELSE IF q[i] # "%" THEN
        LET rest == PercentFormat(q, i + 1, unused)
        IN  IF rest = Raised THEN Raised ELSE <<q[i]>> \o rest
    ELSE
        LET keyed == i + 1 <= Len(q) /\ q[i + 1] = "("
            close == IF keyed THEN KeyEnd(q, i + 2, 1) ELSE i
            key   == IF keyed /\ close > 0 THEN SubSeq(q, i + 2, close - 1) ELSE <<>>
            conv  == close + 1
        IN  IF close = 0 THEN Raised                          \* incomplete format key
            ELSE IF keyed /\ key \notin ParamNames THEN Raised \* KeyError
            ELSE IF conv > Len(q) THEN Raised                  \* incomplete format
            ELSE IF q[conv] = "%" /\ ~keyed THEN
                LET rest == PercentFormat(q, conv + 1, unused)
                IN  IF rest = Raised THEN Raised ELSE <<"%">> \o rest
            ELSE IF q[conv] = "s" /\ (keyed \/ unused) THEN
                LET rest == PercentFormat(q, conv + 1, FALSE)
                    text == IF keyed THEN <<":">> \o key ELSE <<"{mapping}">>
                IN  IF rest = Raised THEN Raised ELSE text \o rest
            ELSE Raised                 \* no argument left, or unsupported character

\* SQLiteCursorWrapper.convert_query
convert_query(q, param_names) ==
    IF param_names = PyNone
    THEN ReplacePercents(RegexSub(q, 1))
    ELSE PercentFormat(q, 1, TRUE)

\* SQLiteCursorWrapper.execute: the query that reaches self.cursor.execute
SQLiteCursorWrapper_execute(q, p) ==
    IF p = "None" THEN q
    ELSE convert_query(q, IF p = "named" THEN "names" ELSE PyNone)

CursorWrapperExecute ==
    /\ qpc = "call"
    /\ passed' = SQLiteCursorWrapper_execute(query, params)
    /\ qpc' = "done"
    /\ UNCHANGED <<query, params, connVars, paramVars>>

InitQuery ==
    /\ ConnIdle
    /\ ParamsIdle
    /\ query \in Queries
    /\ params \in {"None", "positional", "named"}
    /\ passed = <<>>
    /\ qpc = "call"

NextQuery == CursorWrapperExecute

SpecQuery == InitQuery /\ [][NextQuery]_vars

(***************************************************************************)
(* Placeholder syntax, read left to right as Python's format strings are:  *)
(* "%%" is an escaped percent sign, "%s" a positional placeholder,         *)
(* "%(n)s" a named one.                                                    *)
(***************************************************************************)
\* every "%" of q is part of a "%%" escape
RECURSIVE OnlyEscaped(_)
OnlyEscaped(q) ==
    IF q = <<>> THEN TRUE
    ELSE IF q[1] = "%" THEN Len(q) >= 2 /\ q[2] = "%" /\ OnlyEscaped(SubSeq(q, 3, Len(q)))
    ELSE OnlyEscaped(Tail(q))

\* q with every "%" written as the escape "%%"
RECURSIVE Escape(_)
Escape(q) ==
    IF q = <<>> THEN <<>>
    ELSE IF q[1] = "%" THEN <<"%", "%">> \o Escape(Tail(q))
    ELSE <<q[1]>> \o Escape(Tail(q))

Occurrences(q, c) == Cardinality({i \in 1..Len(q) : q[i] = c})

\* format style to qmark style: "%%" -> "%", "%s" -> "?", the rest unchanged
RECURSIVE FormatToQmark(_)
FormatToQmark(q) ==
    IF q = <<>> THEN <<>>
    ELSE IF Len(q) >= 2 /\ q[1] = "%" /\ q[2] = "%"
    THEN <<"%">> \o FormatToQmark(SubSeq(q, 3, Len(q)))
    ELSE IF Len(q) >= 2 /\ q[1] = "%" /\ q[2] = "s"
    THEN <<"?">> \o FormatToQmark(SubSeq(q, 3, Len(q)))
    ELSE <<q[1]>> \o FormatToQmark(Tail(q))

\* the number of "%s" placeholders of q that no escape covers
RECURSIVE UnescapedPlaceholders(_)
UnescapedPlaceholders(q) ==
    IF Len(q) < 2 THEN 0
    ELSE IF q[1] = "%" /\ q[2] = "%" THEN UnescapedPlaceholders(SubSeq(q, 3, Len(q)))
    ELSE IF q[1] = "%" /\ q[2] = "s" THEN 1 + UnescapedPlaceholders(SubSeq(q, 3, Len(q)))
    ELSE UnescapedPlaceholders(Tail(q))

NamedPlaceholder == <<"%", "(", "n", ")", "s">>

\* every "%" of q starts a "%%" escape or the named placeholder "%(n)s"
RECURSIVE PyformatOnly(_)
PyformatOnly(q) ==
    IF q = <<>> THEN TRUE
    ELSE IF q[1] # "%" THEN PyformatOnly(Tail(q))
    ELSE IF Len(q) >= 2 /\ q[2] = "%" THEN PyformatOnly(SubSeq(q, 3, Len(q)))
    ELSE /\ Len(q) >= 5
         /\ SubSeq(q, 1, 5) = NamedPlaceholder
         /\ PyformatOnly(SubSeq(q, 6, Len(q)))

\* pyformat style to named style: "%%" -> "%", "%(n)s" -> ":n"
RECURSIVE PyformatToNamed(_)
PyformatToNamed(q) ==
    IF q = <<>> THEN <<>>
    ELSE IF Len(q) >= 2 /\ q[1] = "%" /\ q[2] = "%"
    THEN <<"%">> \o PyformatToNamed(SubSeq(q, 3, Len(q)))
    ELSE IF Len(q) >= 5 /\ SubSeq(q, 1, 5) = NamedPlaceholder
    THEN <<":", "n">> \o PyformatToNamed(SubSeq(q, 6, Len(q)))
    ELSE <<q[1]>> \o PyformatToNamed(Tail(q))

(***************************************************************************)
(* C8 (as stated): a query whose every "%" is part of a "%%" escape is     *)
(* converted by convert_query to itself.                                   *)
(***************************************************************************)
C8_RoundTripsToItself ==
    (qpc = "done" /\ params # "None" /\ OnlyEscaped(query)) => passed = query

(***************************************************************************)
(* C8 (amended): for a query whose every "%" is part of a "%%" escape,     *)
(* convert_query does not raise and introduces no "?" or ":"; it returns   *)
(* the query with each "%%" collapsed to "%", so that escaping the result  *)
(* again gives the query back; the result is the query itself exactly when *)
(* the query holds no "%".                                                 *)
(***************************************************************************)
C8_EscapesCollapse ==
    (qpc = "done" /\ params # "None" /\ OnlyEscaped(query)) =>
        /\ passed # Raised
        /\ Occurrences(passed, "?") = 0
        /\ Occurrences(passed, ":") = 0
        /\ Escape(passed) = query
        /\ (passed = query <=> Occurrences(query, "%") = 0)

C8_Witness ==
    /\ qpc = "done"
    /\ params = "positional"
    /\ query = <<"n", "%", "%", "s">>
    /\ passed = <<"n", "%", "s">>

\* the positional part of C9
C9_Positional ==
    (qpc = "done" /\ params = "positional") =>
        /\ passed = FormatToQmark(query)
        /\ Occurrences(passed, "?") = UnescapedPlaceholders(query)

\* the named part of C9, for queries whose "%" are all "%%" or "%(n)s"
C9_Named ==
    (qpc = "done" /\ params = "named" /\ PyformatOnly(query)) =>
        passed = PyformatToNamed(query)

\* the part of C9 about params None
C9_None == (qpc = "done" /\ params = "None") => passed = query

(***************************************************************************)
(* C9: with positional parameters convert_query replaces every unescaped   *)
(* "%s" by "?" and every "%%" by "%" and leaves the rest unchanged, so the *)
(* number of "?" equals the number of unescaped "%s"; with named           *)
(* parameters every "%(n)s" becomes ":n"; with params None execute hands   *)
(* the query on unconverted.                                               *)
(***************************************************************************)
C9_PlaceholdersTranslated == C9_Positional /\ C9_Named /\ C9_None

(***************************************************************************)
(* Claims about the connection parameters (SpecParams).                    *)
(***************************************************************************)
\* libsql.connect has been called with conn_params
ConnectCalled == ppc \in {"connected", "error"} /\ kwargs # NoKwargs

\* the token the OPTIONS configure: auth_token, else authToken
ConfiguredToken == Get(OptionsAuthToken(settings_dict.OPTIONS), "")

RemoteNoSync ==
    /\ ConnectCalled
    /\ StartsWithRemote(settings_dict.NAME)
    /\ ~Has(settings_dict.OPTIONS.sync_url)
    /\ ~Has(settings_dict.turso_url)

\* NAME with the scheme libsql replaced by https and the query string dropped
AsHttps(name) == Text("https", name.netloc, name.path, {})

(***************************************************************************)
(* C5 (as stated): for a remote NAME without sync_url and without injected *)
(* URL, the client gets the remote URL as database (NAME, or NAME with     *)
(* libsql:// written as https://), no sync_url, and, when a token is       *)
(* configured, exactly the configured token as auth_token.                 *)
(***************************************************************************)
C5_TokenForwardedUnchanged ==
    RemoteNoSync =>
        /\ conn_params.database \in {settings_dict.NAME, AsHttps(settings_dict.NAME)}
        /\ conn_params.sync_url = Absent
        /\ (ConfiguredToken # "" => conn_params.auth_token = {ConfiguredToken})

(***************************************************************************)
(* C5 (amended): for such a configuration the client gets no sync_url.     *)
(* A libsql:// NAME with a host is passed as https://host/path and any     *)
(* other NAME as it is.  The auth_token passed is the authToken of a       *)
(* libsql:// NAME's query string when it has one, and otherwise the        *)
(* configured token; it is passed only when it is not empty and the        *)
(* database passed is an http(s):// or ws(s):// URL (a libsql:// NAME      *)
(* without a host stays as it is and gets no token).                       *)
(***************************************************************************)
C5_RemoteMode ==
    RemoteNoSync =>
        LET name  == settings_dict.NAME
            token == IF name.scheme = "libsql" /\ Has(name.query)
                     THEN Get(name.query, "") ELSE ConfiguredToken
            url   == IF name.scheme = "libsql" /\ name.netloc # ""
                     THEN AsHttps(name) ELSE name
        IN  /\ conn_params.sync_url = Absent
            /\ conn_params.database = url
            /\ conn_params.auth_token =
                 IF token # "" /\ url.scheme # "libsql" THEN {token} ELSE Absent

C5_Witness ==
    /\ ppc = "connected"
    /\ RemoteNoSync
    /\ settings_dict.NAME = Text("libsql", "db.turso.io", "", {"tokU"})
    /\ settings_dict.OPTIONS.auth_token = {"tokA"}
    /\ conn_params.database = Text("https", "db.turso.io", "", {})
    /\ conn_params.auth_token = {"tokU"}

(***************************************************************************)
(* C6: for a remote NAME with a sync_url option, the derived parameters    *)
(* are those of a local file: database is OPTIONS local_file (default      *)
(* local.db) and sync_url is NAME; without an injected URL that is also    *)
(* what the client is given.                                               *)
(***************************************************************************)
C6_ReplicaFromRemoteName ==
    LET name    == settings_dict.NAME
        options == settings_dict.OPTIONS
        file    == IF Has(options.local_file)
                   THEN CHOOSE f \in options.local_file : TRUE
                   ELSE Text("", "", "local.db", {})
    IN  (kwargs # NoKwargs /\ StartsWithRemote(name) /\ Has(options.sync_url)) =>
            /\ kwargs.database = {file}
            /\ kwargs.sync_url = {name}
            /\ (ConnectCalled /\ ~Has(settings_dict.turso_url)) =>
                   /\ conn_params.database = file
                   /\ conn_params.sync_url = {name}

C6_Witness ==
    /\ ppc = "connected"
    /\ settings_dict.NAME = Text("libsql", "db.turso.io", "", {})
    /\ settings_dict.OPTIONS.sync_url = {Text("https", "sync.turso.io", "", {})}
    /\ settings_dict.OPTIONS.local_file = {Text("", "", "replica.db", {})}
    /\ settings_dict.turso_url = Absent
    /\ conn_params.database = Text("", "", "replica.db", {})
    /\ conn_params.sync_url = {settings_dict.NAME}

(***************************************************************************)
(* C10: when the settings hold the injected URL, the client is given       *)
(* database local.db, the injected URL as sync_url and, when the injected  *)
(* token is there too, that token as auth_token, whatever NAME and OPTIONS *)
(* say.                                                                    *)
(***************************************************************************)
C10_InjectedReplica ==
    (ConnectCalled /\ Has(settings_dict.turso_url)) =>
        /\ conn_params.database = Text("", "", "local.db", {})
        /\ conn_params.sync_url = settings_dict.turso_url
        /\ Has(settings_dict.turso_auth_token) =>
               conn_params.auth_token = settings_dict.turso_auth_token

C10_Witness ==
    /\ ppc = "connected"
    /\ settings_dict.turso_url = {Text("libsql", "inj.turso.io", "", {})}
    /\ settings_dict.turso_auth_token = {"tokT"}
    /\ settings_dict.NAME = Text("https", "db.turso.io", "", {})
    /\ settings_dict.OPTIONS.auth_token = {"tokA"}
    /\ settings_dict.OPTIONS.sync_url = {Text("https", "sync.turso.io", "", {})}
    /\ settings_dict.OPTIONS.local_file = {Text("", "", "replica.db", {})}
    /\ conn_params.database = Text("", "", "local.db", {})
    /\ conn_params.auth_token = {"tokT"}

(***************************************************************************)
(* Claims about the transaction state machine (Spec).                      *)
(***************************************************************************)
\* sql starts, after whitespace and in any letter case, with one of
\* INSERT, UPDATE, DELETE, REPLACE
DataModifying(sql) ==
    \E i \in 1..Len(sql) :
        /\ sql[i] \in {"INSERT", "insert", "UPDATE", "DELETE", "REPLACE"}
        /\ \A j \in 1..(i - 1) : sql[j] = " "

IsBegin(entry) == entry.call = "execute" /\ entry.sql = <<"BEGIN">>

Begins == {i \in 1..Len(sent) : IsBegin(sent[i])}

\* execute was called in manual mode, outside a transaction, with a
\* data-modifying statement
ManualDmlOutsideTransaction ==
    /\ last.op = "execute"
    /\ DataModifying(last.sql)
    /\ last.iso0 # PyNone
    /\ ~last.tx0

(***************************************************************************)
(* C1: execute of a data-modifying statement in manual mode, with no       *)
(* transaction active, sends exactly one BEGIN to the client, as its first *)
(* call; the statement follows it and runs inside the transaction that     *)
(* BEGIN opened.                                                           *)
(***************************************************************************)
C1_OneImplicitBegin ==
    ManualDmlOutsideTransaction =>
        /\ Len(sent) >= 1
        /\ Begins = {1}
        /\ ~sent[1].tx
        /\ \A i \in 1..Len(sent) :
               sent[i].sql = last.sql => (i = 2 /\ sent[1].ok /\ sent[i].tx)
        /\ last.ok =>
               /\ Len(sent) = 2
               /\ sent[2].call = "execute"
               /\ sent[2].sql = last.sql
               /\ in_transaction
               /\ _in_transaction

C1_Witness ==
    /\ ManualDmlOutsideTransaction
    /\ last.sql = <<" ", "insert", " ">>
    /\ last.ok
    /\ Len(sent) = 2
    /\ IsBegin(sent[1])
    /\ sent[2].tx

(***************************************************************************)
(* C2: in autocommit mode commit and rollback send nothing to the client   *)
(* and change neither the client's transaction state, nor the wrapper's    *)
(* flag, nor the isolation level.                                          *)
(***************************************************************************)
C2_AutocommitNoOps ==
    (last.op \in {"commit", "rollback"} /\ last.iso0 = PyNone) =>
        /\ sent = <<>>
        /\ last.ok
        /\ in_transaction = last.tx0
        /\ _in_transaction = last.flag0
        /\ _isolation_level = last.iso0
        /\ foreign_keys = last.fk0

C2_Witness ==
    /\ last.op = "commit"
    /\ last.iso0 = PyNone
    /\ last.tx0
    /\ in_transaction
    /\ sent = <<>>

(***************************************************************************)
(* C3: after every commit or rollback that returns, in either mode, the    *)
(* wrapper's _in_transaction equals the client's in_transaction.           *)
(***************************************************************************)
C3_FlagMatchesClient ==
    (last.op \in {"commit", "rollback"} /\ last.ok) =>
        _in_transaction = in_transaction

(***************************************************************************)
(* C4 (as stated): a connection opened with the isolation level absent or  *)
(* None is in autocommit mode, one opened with '' in manual mode.          *)
(***************************************************************************)
C4_AbsentIsAutocommit ==
    (last.op \in {"get_new_connection", "connect"} /\ last.ok) =>
        /\ last.arg \in {"<absent>", PyNone} => _isolation_level = PyNone
        /\ last.arg = "" => _isolation_level = ""

(***************************************************************************)
(* C4 (amended): a connection whose isolation level is None is in          *)
(* autocommit mode: no implicit BEGIN, commit and rollback send nothing.   *)
(* One whose isolation level is absent is in manual mode (the connect      *)
(* arguments default it to '', the settings to 'DEFERRED'), as is one      *)
(* whose isolation level is '': a data-modifying statement outside a       *)
(* transaction is preceded by BEGIN, commit and rollback reach the client. *)
(* _set_autocommit switches between None and ''.                           *)
(***************************************************************************)
C4_ModeByIsolationLevel ==
    /\ (last.op \in {"get_new_connection", "connect"} /\ last.ok) =>
           _isolation_level =
               CASE last.arg = PyNone -> PyNone
                 [] last.arg = "" -> ""
                 [] last.arg = "<absent>" ->
                        IF last.op = "connect" THEN "" ELSE "DEFERRED"
    /\ (last.op = "execute" /\ DataModifying(last.sql) /\ ~last.tx0) =>
           IF last.iso0 = PyNone
           THEN Begins = {} /\ Len(sent) <= 1
           ELSE Begins = {1}
    /\ last.op \in {"commit", "rollback"} =>
           IF last.iso0 = PyNone
           THEN sent = <<>>
           ELSE Len(sent) = 1 /\ sent[1].call = last.op
    /\ (last.op = "_set_autocommit" /\ last.ok) =>
           _isolation_level = IF last.arg = "True" THEN PyNone ELSE ""

\* 'DEFERRED' is the level only of a connection opened from settings that
\* name no isolation_level
C4_Witness ==
    /\ last.op = "execute"
    /\ DataModifying(last.sql)
    /\ last.iso0 = "DEFERRED"
    /\ ~last.tx0
    /\ Begins = {1}
    /\ last.ok

\* disable_constraint_checking has returned, right after a call of
\* enable_constraint_checking that returned
EnableThenDisable ==
    /\ last.op = "disable_constraint_checking"
    /\ last.ok
    /\ prev.op = "enable_constraint_checking"

(***************************************************************************)
(* C7 (as stated): enable_constraint_checking followed by                  *)
(* disable_constraint_checking leaves foreign-key checking as it was       *)
(* before the two calls.                                                   *)
(***************************************************************************)
C7_EnableDisableRestores == EnableThenDisable => foreign_keys = prev.fk0

(***************************************************************************)
(* C7 (amended): enable_constraint_checking followed by                    *)
(* disable_constraint_checking leaves foreign-key checking as it was       *)
(* before the two calls when it was disabled then, or when the connection  *)
(* is inside a transaction, where the engine ignores both pragmas.         *)
(* Outside a transaction the pair leaves checking disabled, so from the    *)
(* enabled state it does not restore it.  disable_constraint_checking      *)
(* returns whether checking is off afterwards.                             *)
(***************************************************************************)
C7_EnableDisableOutcome ==
    EnableThenDisable =>
        /\ foreign_keys = (last.tx0 /\ prev.fk0)
        /\ (foreign_keys = prev.fk0) <=> (last.tx0 \/ ~prev.fk0)
        /\ last.ret = IF foreign_keys THEN "False" ELSE "True"

C7_Witness ==
    /\ EnableThenDisable
    /\ last.tx0
    /\ prev.fk0
    /\ foreign_keys
    /\ last.ret = "False"

(***************************************************************************)
(* Claims about failures (Spec).                                           *)
(***************************************************************************)
\* the construction of a connection failed: get_connection_params or
\* LibSQLConnection.__init__ raised, so that nothing after the client's
\* connect was sent
ConstructionFailed ==
    /\ last.op \in {"get_new_connection", "connect"}
    /\ ~last.ok
    /\ \A i \in 1..Len(sent) : sent[i].call = "connect"

(***************************************************************************)
(* C11: every failure of the construction of a connection (an empty NAME,  *)
(* a malformed URL, an exception of the client's connect) reaches the      *)
(* caller as ImproperlyConfigured, and leaves no connection and no         *)
(* transaction state behind.                                               *)
(***************************************************************************)
C11_ConstructionErrorsWrapped ==
    ConstructionFailed =>
        /\ last.exc = "ImproperlyConfigured"
        /\ connection = "closed"
        /\ ~_in_transaction
        /\ ~in_transaction

\* execute was given a parameter whose registered adapter raises
UnadaptableParameter == last.op = "execute" /\ last.arg = "unadaptable"

\* no call on the client failed during the last operation
ClientCallsSucceeded == \A i \in 1..Len(sent) : sent[i].ok

\* the statement of the last operation reached the client
StatementSent == \E i \in 1..Len(sent) : sent[i].sql = last.sql

\* fetchone was called and the client's fetchone gave a described row
FetchedRow ==
    /\ last.op = "fetchone"
    /\ ClientCallsSucceeded
    /\ row # Absent
    /\ description # Absent

(***************************************************************************)
(* C12 (as stated): when an adapter raises in execute or a converter       *)
(* raises in fetchone, the operation still completes with the original     *)
(* value and no error reaches the caller.                                  *)
(***************************************************************************)
C12_FailuresSwallowed ==
    /\ (UnadaptableParameter /\ ClientCallsSucceeded) =>
           /\ last.ok
           /\ StatementSent
    /\ FetchedRow =>
           /\ last.ok
           /\ fetched # Absent
           /\ LET r == Get(row, <<>>)
                  d == Get(description, <<>>)
                  f == Get(fetched, <<>>)
              IN  /\ Len(f) = Len(r)
                  /\ \A i \in 1..Len(r) : d[i] = "raises" => f[i] = r[i]

(***************************************************************************)
(* C12 (amended): a converter that raises in fetchone is swallowed:        *)
(* fetchone returns whenever the client's fetchone does, with the          *)
(* converted value in the columns whose converter returns and the original *)
(* value in every other column (NULL, no converter, converter raises); a   *)
(* row of None, an empty row and a row without description are returned as *)
(* they are.  An adapter that raises in execute is not swallowed: its      *)
(* exception reaches the caller and the statement is not sent.             *)
(***************************************************************************)
C12_ConverterFailuresSwallowed ==
    /\ last.op = "fetchone" => (last.ok <=> ClientCallsSucceeded)
    /\ (last.op = "fetchone" /\ last.ok) =>
           IF row = Absent \/ description = Absent
           THEN fetched = row
           ELSE LET r == Get(row, <<>>)
                    d == Get(description, <<>>)
                    f == Get(fetched, <<>>)
                IN  /\ fetched # Absent
                    /\ Len(f) = Len(r)
                    /\ \A i \in 1..Len(r) :
                           f[i] = IF r[i] = "value" /\ d[i] = "converts"
                                  THEN "converted value"
                                  ELSE r[i]
    /\ UnadaptableParameter =>
           /\ ~last.ok
           /\ ~StatementSent
           /\ ClientCallsSucceeded => last.exc = "adapter's exception"

C12_Witness ==
    /\ FetchedRow
    /\ last.ok
    /\ row = {<<"value", "value">>}
    /\ description = {<<"raises", "converts">>}
    /\ fetched = {<<"value", "converted value">>}

\* the calls of one kind that the last operation made on the client
Calls(kind) == {i \in 1..Len(sent) : sent[i].call = kind}

\* the calls whose failure the caller is to see
Surfacing == {"connect", "execute", "executescript", "commit", "rollback"}

(***************************************************************************)
(* C13: nothing is retried and failures surface.  get_new_connection calls *)
(* the client's connect once, then sends PRAGMA foreign_keys = ON once,    *)
(* then calls sync at most once and only when a sync_url is configured; it *)
(* returns the connection exactly when connect and the PRAGMA succeeded,   *)
(* whatever sync did.  In every operation a call that fails is the last    *)
(* call made, and when it is a connect, execute (PRAGMA included),         *)
(* executescript, commit or rollback the operation raises.                 *)
(***************************************************************************)
C13_NoRetryFailuresSurface ==
    /\ last.op = "get_new_connection" =>
           /\ Len(sent) <= 3
           /\ Calls("connect") \subseteq {1}
           /\ Calls("execute") \subseteq {2}
           /\ Calls("sync") \subseteq {3}
           /\ Calls("connect") \cup Calls("execute") \cup Calls("sync") = 1..Len(sent)
           /\ Len(sent) >= 2 => sent[2].sql = PragmaOn
           /\ Len(sent) = 3 => last.sync_url
           /\ last.ok <=> (Len(sent) >= 2 /\ sent[1].ok /\ sent[2].ok)
           /\ (last.ok /\ last.sync_url) => Len(sent) = 3
           /\ connection = IF last.ok THEN "open" ELSE "closed"
    /\ \A i \in 1..Len(sent) :
           ~sent[i].ok =>
               /\ i = Len(sent)
               /\ sent[i].call \in Surfacing => ~last.ok

C13_Witness ==
    /\ last.op = "get_new_connection"
    /\ last.sync_url
    /\ Len(sent) = 3
    /\ sent[3].call = "sync"
    /\ ~sent[3].ok
    /\ last.ok
    /\ connection = "open"

(***************************************************************************)
(* Claims about check_constraints (SpecCheck).                             *)
(***************************************************************************)
\* check_constraints was called and every query it sent succeeded
Checked == last.op = "check_constraints" /\ ClientCallsSucceeded

\* the tables whose reports the call is to walk, in order
Walked == Get(table_names, <<"t1", "t2">>)

\* the number of violations the engine has to report for these tables
RECURSIVE Reported(_)
Reported(names) ==
    IF names = <<>> THEN 0 ELSE reports[Head(names)] + Reported(Tail(names))

\* the number of IntegrityErrors the call raised
IntegrityErrors == IF last.exc = "IntegrityError" THEN 1 ELSE 0

\* the tables of names before the first one with a violation, and that one
RECURSIVE UpToFirstViolation(_)
UpToFirstViolation(names) ==
    IF names = <<>> THEN <<>>
    ELSE IF reports[Head(names)] > 0 THEN <<Head(names)>>
    ELSE <<Head(names)>> \o UpToFirstViolation(Tail(names))

\* the tables for which the call sent PRAGMA foreign_key_check(table)
TablesChecked ==
    LET checks == SelectSeq(sent, LAMBDA c : /\ Len(c.sql) = 2
                                             /\ c.sql[1] = "PRAGMA foreign_key_check")
    IN  [i \in 1..Len(checks) |-> checks[i].sql[2]]

(***************************************************************************)
(* C14 (as stated): check_constraints raises an IntegrityError for each    *)
(* violation the engine reports for the tables it is to walk, and none     *)
(* when there is no violation.                                             *)
(***************************************************************************)
C14_ErrorPerViolation ==
    (Checked /\ last.exc # "TypeError") => IntegrityErrors = Reported(Walked)

(***************************************************************************)
(* C14 (amended): when the queries succeed, check_constraints returns      *)
(* without an error if the engine reports no violation for the tables it   *)
(* walks, and otherwise raises once, for the first violation in the order  *)
(* of the walk: an IntegrityError that describes it (a TypeError when the  *)
(* reported row cannot be read back).  It stops there: the named tables    *)
(* are checked one by one, in order, up to the first one with a violation. *)
(***************************************************************************)
C14_FirstViolationRaised ==
    /\ Checked =>
           /\ last.ok <=> Reported(Walked) = 0
           /\ ~last.ok => last.exc \in {"IntegrityError", "TypeError"}
           /\ table_names # Absent => TablesChecked = UpToFirstViolation(Walked)
           /\ table_names = Absent => sent[1].sql = <<"PRAGMA foreign_key_check">>
    /\ (last.op = "check_constraints" /\ last.exc = "IntegrityError") =>
           /\ Checked
           /\ violation.rowid = 1
           /\ reports[violation.table] > 0
           /\ \E i \in 1..Len(Walked) :
                  /\ Walked[i] = violation.table
                  /\ \A j \in 1..(i - 1) : reports[Walked[j]] = 0

C14_Witness ==
    /\ last.op = "check_constraints"
    /\ table_names = {<<"t2", "t1">>}
    /\ reports["t1"] = 1
    /\ reports["t2"] = 2
    /\ last.exc = "IntegrityError"
    /\ violation = [table |-> "t2", rowid |-> 1]
    /\ TablesChecked = <<"t2">>

\* commit() or rollback() returned while the client was in a transaction
EndedTransaction ==
    /\ last.op \in {"commit", "rollback"}
    /\ last.ok
    /\ last.tx0

(***************************************************************************)
(* C15: when the client is in a transaction, whether the implicit BEGIN of *)
(* manual mode began it or _start_transaction_under_autocommit did with    *)
(* the isolation level None, the client is in no transaction once commit() *)
(* or rollback() has returned without an error.                            *)
(***************************************************************************)
C15_CommitEndsTransaction == EndedTransaction => ~in_transaction

\* the isolation level was set to None while the client was in a transaction
SwitchedToAutocommit ==
    /\ last.op = "_set_autocommit"
    /\ last.arg = "True"
    /\ last.ok
    /\ last.tx0

(***************************************************************************)
(* C16: when the isolation level is set to None while the client is in a   *)
(* transaction, the transaction is committed, or rolled back if the commit *)
(* fails: once the assignment has returned the client is in no             *)
(* transaction.                                                            *)
(***************************************************************************)
C16_AutocommitSwitchCommits == SwitchedToAutocommit => ~in_transaction

\* execute or executemany sent a BEGIN of its own and the client ran it
ImplicitBeginRun ==
    /\ last.op \in {"execute", "executemany"}
    /\ last.sql # Begin
    /\ \E i \in Begins : sent[i].ok

\* commit, rollback or __exit__ reached the client, which ended the transaction
EffectiveEnd ==
    /\ last.op \in {"commit", "rollback", "__exit__"}
    /\ \E i \in 1..Len(sent) :
           /\ sent[i].call \in {"commit", "rollback"}
           /\ sent[i].ok

\* a transaction was begun, with client and flag agreeing that there was
\* none, by an operation that is not an implicit BEGIN
BegunUntracked ==
    /\ last.ok
    /\ ~last.tx0
    /\ ~last.flag0
    /\ \/ last.op = "_start_transaction_under_autocommit"
       \/ last.op = "execute" /\ last.sql = Begin
       \/ last.op = "executescript" /\ last.sql = <<"BEGIN", ";", "INSERT">>

(***************************************************************************)
(* C17: an operation on the connection changes the wrapper's               *)
(* _in_transaction only when it ran an implicit BEGIN or when its commit   *)
(* or rollback reached the client.  So the flag drifts: after a            *)
(* transaction begun by _start_transaction_under_autocommit, by BEGIN      *)
(* executed as SQL or by executescript, the client is in a transaction and *)
(* the flag says it is not.                                                *)
(***************************************************************************)
C17_FlagRefreshedOnly ==
    /\ (connection = "open" /\ _in_transaction # last.flag0) =>
           ImplicitBeginRun \/ EffectiveEnd
    /\ BegunUntracked => (in_transaction /\ ~_in_transaction)

C17_Witness ==
    /\ last.op = "_start_transaction_under_autocommit"
    /\ BegunUntracked
    /\ Len(sent) = 1
    /\ IsBegin(sent[1])
    /\ in_transaction
    /\ ~_in_transaction

\* the BEGINs that execute or executemany sent without being asked to
ImplicitBegins ==
    IF last.op \in {"execute", "executemany"} /\ last.sql # Begin THEN Begins ELSE {}

(***************************************************************************)
(* C18: execute sends an implicit BEGIN only for a statement that starts   *)
(* with INSERT, UPDATE, DELETE or REPLACE, with an isolation level that is *)
(* not None, while the client is in no transaction: never in autocommit    *)
(* mode, never for another statement, never inside a transaction.  An      *)
(* executemany sends at most one, before the first parameter set.          *)
(***************************************************************************)
C18_ImplicitBeginOnlyIf ==
    /\ \A i \in ImplicitBegins :
           /\ last.iso0 # PyNone
           /\ ~sent[i].tx
           /\ DataModifying(last.sql)
    /\ ImplicitBegins \subseteq {1}
    /\ (last.iso0 = PyNone \/ last.tx0 \/ ~DataModifying(last.sql)) => ImplicitBegins = {}

C18_Witness ==
    /\ last.op = "executemany"
    /\ last.ok
    /\ last.iso0 # PyNone
    /\ ~last.tx0
    /\ last.sql = <<"INSERT">>
    /\ Len(sent) = MaxParamSets + 1
    /\ ImplicitBegins = {1}
    /\ \A i \in 2..Len(sent) : sent[i].sql = last.sql /\ sent[i].tx

====
